---------------------------- MODULE Spec2Model ----------------------------
(***************************************************************************)
(* Model of hot-templ (src/main.go): the process run() starts, the         *)
(* listener goroutine, the signal channel, the shutdown sequence, and the  *)
(* two request handlers registered on the mux (the root counter page and   *)
(* healthz), wrapped by the session manager's LoadAndSave middleware.      *)
(*                                                                         *)
(* Goroutines are interleaved at their accesses to shared state:           *)
(*   - global.Count++ is a read followed by a write (no lock, no atomic);  *)
(*   - the session data of a request is private to the request between     *)
(*     the middleware's load (request start) and its commit (request end); *)
(*   - the listener goroutine's return from ListenAndServe, its log line   *)
(*     and its panic are separate steps: the main goroutine may run, and   *)
(*     end the process, between them;                                      *)
(*   - the main goroutine's steps from the receive on stopChan to main's   *)
(*     return (the two log lines around srv.Shutdown, the deferred         *)
(*     "service stopped") are separate as well: the listener goroutine,    *)
(*     the handlers and a signal may run between them;                     *)
(*   - the goroutine of a connection reads a request and then stores       *)
(*     StateActive: srv.Shutdown's poll may come between the two, take the *)
(*     connection for idle and close it, and srv.Shutdown then returns     *)
(*     without waiting for the request.                                    *)
(* Time is only observed by srv.Shutdown's context deadline; `elapsed` is  *)
(* the last deadline that has passed since Shutdown was called.            *)
(* Counters are Go ints (64 bit); the request bound keeps them far from    *)
(* the width, so the increments are modelled without wrap-around.          *)
(***************************************************************************)
EXTENDS Integers, Sequences, FiniteSets, Bags

\* ------------------------------------------------------------- bounds
\* Increments that the POST requests of one run of the process ask for, of
\* the global counter and the session counters together.
MaxIncrements == 3
\* Requests read from the connections in one run.
MaxRequests == 3
\* Connections that may be open at the same time, so also requests that
\* may be in flight at the same time.
MaxConc == 2
\* Session tokens the store can issue in one run.
MaxTokens == 2
\* Requests read from the connections in one run of the specification
\* with fairness.
MaxFairRequests == 2
\* Requests that may be in flight at the same time while the read of one
\* of them is overtaken by srv.Shutdown's poll (that one included).
MaxOvertaken == 1

\* ---------------------------------------------------- program constants
\* cfg.ShutdownTimeout default, in seconds.
ShutdownTimeout == 5
\* The deadline run() gives srv.Shutdown (time.Minute), in seconds.
ShutdownContextTimeout == 60
StatusOK == 200
StatusMethodNotAllowed == 405

HealthPath == "/healthz"
RootPath == "/"
key == "count"

\* The registration as it would be without SIGQUIT.
NotifySignalsNoQuit == {"SIGINT", "SIGTERM"}

\* signal.Notify(stopChan, SIGINT, SIGTERM, SIGQUIT)
NotifySignals == {"SIGINT", "SIGTERM", "SIGQUIT"}

\* The signals the operating system may deliver; one the program does not
\* register (SIGHUP here) keeps its default disposition.
Signals == {"SIGINT", "SIGTERM", "SIGQUIT", "SIGHUP"}
\* make(chan os.Signal, 1)
StopChanCap == 1

Methods == {"GET", "POST", "HEAD", "DELETE"}
Fields == {"global", "user"}
Tokens == 1..MaxTokens
\* A request without a session cookie.
NoToken == 0

VARIABLES
    pcMain,      \* where the main goroutine is in run()
    pcListen,    \* where the goroutine of line 149 is in ListenAndServe
    registered,  \* signal.Notify has been called
    stopChan,    \* the buffered signal channel
    inShutdown,  \* srv.Shutdown has been called
    elapsed,     \* seconds since Shutdown was called (last deadline passed)
    exited,      \* how the process ended, "no" while it runs
    log,         \* lifecycle log lines, in order
    delivered,   \* history: a registered signal has been delivered
    global,      \* global.Count
    store,       \* the session store: token -> value stored under key
    expired,     \* the tokens in the store whose session lifetime has passed
    newConns,    \* connections accepted less than 5 s ago on which no
                 \* request has been read yet (StateNew)
    idleConns,   \* connections srv.Shutdown takes for idle: keep-alive
                 \* connections between requests, and connections without
                 \* a request for 5 s or more
    conn,        \* the requests in flight, a bag of request records
    gDone,       \* history: POST requests with `global` that have completed
    uDone,       \* history: per session token, the POST requests with
                 \* `user` of that session that have completed
    nReqs        \* history: the requests read so far

vars == <<pcMain, pcListen, registered, stopChan, inShutdown, elapsed, exited,
          log, delivered, global, store, expired, newConns, idleConns, conn,
          gDone, uDone, nReqs>>

lifeVars == <<pcMain, pcListen, registered, stopChan, inShutdown, elapsed,
              exited, log, delivered>>
dataVars == <<global, store, expired, newConns, idleConns, conn, gDone, uDone, nReqs>>

\* --------------------------------------------------------------- state
\* A request in flight holds the state of its connection as srv.Shutdown
\* finds it (cstate: "active"; "idle" while the request has been read and
\* StateActive is not stored yet; "closed" once srv.Shutdown has closed
\* the connection and forgotten it), its path, method and form and the
\* token of its session cookie, the session data the middleware loaded
\* for it (sdToken, sdCount, sdModified), the value of global.Count it has
\* read for the increment (tmp), and, once the handler has returned, its
\* buffered
\* response (status, body and the two counts on the page, pageGlobal and
\* pageUser).
NewRequest ==
    [pc |-> "received", cstate |-> "active",
     path |-> RootPath, method |-> "GET", form |-> {}, cookie |-> NoToken,
     sdToken |-> NoToken, sdCount |-> 0, sdModified |-> FALSE,
     tmp |-> 0, status |-> 0, body |-> "", pageGlobal |-> 0, pageUser |-> 0]

Init ==
    /\ pcMain = "parse"
    /\ pcListen = "none"
    /\ registered = FALSE
    /\ stopChan = << >>
    /\ inShutdown = FALSE
    /\ elapsed = 0
    /\ exited = "no"
    /\ log = << >>
    /\ delivered = FALSE
    /\ global = 0
    /\ store = << >>
    /\ expired = {}
    /\ newConns = 0
    /\ idleConns = 0
    /\ conn = EmptyBag
    /\ gDone = 0
    /\ uDone = [t \in Tokens |-> 0]
    /\ nReqs = 0

Running == exited = "no"

InFlight == BagToSet(conn)

\* The process ends: its goroutines stop where they are and its memory
\* (the counter, the in-memory session store, the connections) is gone.
Exit(how) ==
    /\ exited' = how
    /\ global' = 0
    /\ store' = << >>
    /\ expired' = {}
    /\ newConns' = 0
    /\ idleConns' = 0
    /\ conn' = EmptyBag
    /\ gDone' = 0
    /\ uDone' = [t \in Tokens |-> 0]
    /\ nReqs' = 0

\* Exit status of each way the process ends: main returns after run
\* returned nil (0), os.Exit(1) after run returned an error, and the Go
\* runtime's status 2 for an unrecovered panic and for a SIGQUIT it handles
\* itself (the stack dump). A process killed by another signal has no exit
\* status of its own: -1 stands for "terminated by the signal".
ExitCode(how) ==
    CASE how = "clean" -> 0
      [] how = "help" -> 0
      [] how = "error" -> 1
      [] how = "panic" -> 2
      [] how = "SIGQUIT" -> 2
      [] OTHER -> -1

\* The lifecycle state of section 4.5, read off the two goroutines; Failed
\* stands for every end of the process other than run() returning after
\* the shutdown sequence, Failing for the listener goroutine being on its
\* way to the panic (ListenAndServe has returned its error).
Lifecycle ==
    CASE exited = "clean" -> "Stopped"
      [] exited # "no" -> "Failed"
      [] pcMain = "parse" -> "Idle"
      [] pcListen \in {"failed", "logged"} -> "Failing"
      [] inShutdown -> "ShuttingDown"
      [] pcListen = "accept" -> "Serving"
      [] OTHER -> "Starting"

\* ------------------------------------------------------- main goroutine
\* conf.Parse: success, help wanted (usage printed, run returns nil), or a
\* parse error (run returns it, main logs it and exits 1).
ParseConfig ==
    /\ Running /\ pcMain = "parse"
    /\ \E outcome \in {"ok", "help", "error"} :
        CASE outcome = "ok" ->
                /\ pcMain' = "notify"
                /\ UNCHANGED <<exited, log>>
                /\ UNCHANGED dataVars
          [] outcome = "help" ->
                /\ pcMain' = "returned"
                /\ UNCHANGED log
                /\ Exit("help")
          [] OTHER ->
                /\ pcMain' = "returned"
                /\ log' = Append(log, "error")
                /\ Exit("error")
    /\ UNCHANGED <<pcListen, registered, stopChan, inShutdown, elapsed>>
    /\ UNCHANGED delivered

\* stopChan := make(chan os.Signal, 1); signal.Notify(stopChan, ...)
NotifySignal ==
    /\ Running /\ pcMain = "notify"
    /\ registered' = TRUE
    /\ pcMain' = "setup"
    /\ UNCHANGED <<pcListen, stopChan, inShutdown, elapsed, exited, log>>
    /\ UNCHANGED dataVars
    /\ UNCHANGED delivered

\* Lines 74-107: conf.String, the startup log line, the deferred "service
\* stopped", the mux and the embedded assets. conf.String fails before the
\* defer is registered, fs.Sub after it.
Setup ==
    /\ Running /\ pcMain = "setup"
    /\ \E outcome \in {"ok", "config", "assets"} :
        CASE outcome = "ok" ->
                /\ pcMain' = "spawn"
                /\ log' = Append(log, "starting service...")
                /\ UNCHANGED exited
                /\ UNCHANGED dataVars
          [] outcome = "config" ->
                /\ pcMain' = "returned"
                /\ log' = Append(log, "error")
                /\ Exit("error")
          [] OTHER ->
                /\ pcMain' = "returned"
                /\ log' = log \o <<"starting service...", "service stopped",
                                   "error">>
                /\ Exit("error")
    /\ UNCHANGED <<pcListen, registered, stopChan, inShutdown, elapsed>>
    /\ UNCHANGED delivered

\* go func(srv *http.Server) {...}(srv)
Spawn ==
    /\ Running /\ pcMain = "spawn"
    /\ pcMain' = "wait"
    /\ pcListen' = "start"
    /\ UNCHANGED <<registered, stopChan, inShutdown, elapsed, exited, log>>
    /\ UNCHANGED dataVars
    /\ UNCHANGED delivered

\* The receive as it would be if run() returned right after it, without
\* calling srv.Shutdown.
ReceiveStopReturn ==
    /\ Running /\ pcMain = "wait"
    /\ Len(stopChan) > 0
    /\ stopChan' = Tail(stopChan)
    /\ pcMain' = "return"
    /\ UNCHANGED <<pcListen, registered, inShutdown, elapsed, exited, log>>
    /\ UNCHANGED dataVars
    /\ UNCHANGED delivered

\* <-stopChan (line 159).
ReceiveStop ==
    /\ Running /\ pcMain = "wait"
    /\ Len(stopChan) > 0
    /\ stopChan' = Tail(stopChan)
    /\ pcMain' = "received"
    /\ UNCHANGED <<pcListen, registered, inShutdown, elapsed, exited, log>>
    /\ UNCHANGED dataVars
    /\ UNCHANGED delivered

\* log.Info("shutting down the service...") (line 163).
LogShuttingDown ==
    /\ Running /\ pcMain = "received"
    /\ log' = Append(log, "shutting down the service...")
    /\ pcMain' = "stopping"
    /\ UNCHANGED <<pcListen, registered, stopChan, inShutdown, elapsed, exited>>
    /\ UNCHANGED dataVars
    /\ UNCHANGED delivered

\* The call of srv.Shutdown: it marks the server as shutting down and
\* closes the listener Serve has registered, if any, before it starts to
\* wait for the active connections.
Shutdown ==
    /\ Running /\ pcMain = "stopping"
    /\ inShutdown' = TRUE
    /\ elapsed' = 0
    /\ pcMain' = "draining"
    /\ UNCHANGED <<pcListen, registered, stopChan, exited, log>>
    /\ UNCHANGED dataVars
    /\ UNCHANGED delivered

\* srv.Shutdown has returned (line 164): with an error, run() goes on to
\* log it; without, to its return.
AfterShutdown(failed) ==
    /\ pcMain' = IF failed THEN "failed" ELSE "return"
    /\ UNCHANGED <<exited, log>>
    /\ UNCHANGED dataVars

\* Shutdown as it would be if it did not wait for the active connections
\* (what srv.Close does).
ShutdownImmediate ==
    /\ Running /\ pcMain = "draining"
    /\ \E lnerr \in BOOLEAN :
        /\ lnerr => pcListen \in {"accept", "closed"}
        /\ AfterShutdown(lnerr)
    /\ UNCHANGED <<pcListen, registered, stopChan, inShutdown, elapsed>>
    /\ UNCHANGED delivered

\* The requests in flight on a connection srv.Shutdown waits for: those
\* its poll finds active.
Waited == {r \in InFlight : r.cstate = "active"}

\* The requests in flight on a connection srv.Shutdown's poll takes for
\* idle: the request has been read and StateActive is not stored yet.
TakenForIdle == {r \in InFlight : r.cstate = "idle"}

\* srv.Shutdown's poll (closeIdleConns) closes a connection it takes for
\* idle and forgets it: one without a request, or one whose request has
\* been read and whose goroutine has not stored StateActive yet. The
\* request of the latter goes on to the handler, on a closed connection
\* srv.Shutdown no longer waits for.
CloseIdleConns ==
    /\ Running /\ pcMain = "draining"
    /\ \/ /\ idleConns > 0
          /\ idleConns' = idleConns - 1
          /\ UNCHANGED conn
       \/ /\ \E r \in TakenForIdle :
                conn' = (conn (-) SetToBag({r}))
                          (+) SetToBag({[r EXCEPT !.cstate = "closed"]})
          /\ UNCHANGED idleConns
    /\ UNCHANGED <<global, store, expired, newConns, gDone, uDone, nReqs>>
    /\ UNCHANGED lifeVars

\* srv.Shutdown's poll finds no connection left (none active, none new,
\* the idle ones closed; the requests on the connections it has closed
\* may still be running): it returns the error of closing the listener,
\* nil unless there was a registered listener (Serve is in its accept
\* loop, or has left it since) and its close failed.
ShutdownDrained ==
    /\ Running /\ pcMain = "draining"
    /\ Waited = {} /\ TakenForIdle = {}
    /\ newConns = 0 /\ idleConns = 0
    /\ \E lnerr \in BOOLEAN :
        /\ lnerr => pcListen \in {"accept", "closed"}
        /\ AfterShutdown(lnerr)
    /\ UNCHANGED <<pcListen, registered, stopChan, inShutdown, elapsed>>
    /\ UNCHANGED delivered

\* The context of line 160 has expired while srv.Shutdown was waiting
\* between two polls: it returns ctx.Err(), whatever the connections have
\* become since the last poll.
ShutdownDeadline ==
    /\ Running /\ pcMain = "draining"
    /\ elapsed >= ShutdownContextTimeout
    /\ AfterShutdown(TRUE)
    /\ UNCHANGED <<pcListen, registered, stopChan, inShutdown, elapsed>>
    /\ UNCHANGED delivered

\* The error branch as it would be if run() returned the error of
\* srv.Shutdown to main: the deferred line, main's "error" line, os.Exit(1).
ShutdownFailedReturnErr ==
    /\ Running /\ pcMain = "failed"
    /\ log' = log \o <<"server Shutdown Failed", "service stopped", "error">>
    /\ pcMain' = "returned"
    /\ Exit("error")
    /\ UNCHANGED <<pcListen, registered, stopChan, inShutdown, elapsed>>
    /\ UNCHANGED delivered

\* log.Error("server Shutdown Failed") (line 165); run() goes on to its
\* return.
ShutdownFailed ==
    /\ Running /\ pcMain = "failed"
    /\ log' = Append(log, "server Shutdown Failed")
    /\ pcMain' = "return"
    /\ UNCHANGED <<pcListen, registered, stopChan, inShutdown, elapsed, exited>>
    /\ UNCHANGED dataVars
    /\ UNCHANGED delivered

\* return nil (line 168): the deferred log.Info("service stopped") of line
\* 89 runs.
ServiceStopped ==
    /\ Running /\ pcMain = "return"
    /\ log' = Append(log, "service stopped")
    /\ pcMain' = "stopped"
    /\ UNCHANGED <<pcListen, registered, stopChan, inShutdown, elapsed, exited>>
    /\ UNCHANGED dataVars
    /\ UNCHANGED delivered

\* run() has returned nil to main, which returns: the process ends with
\* status 0, whatever its other goroutines are doing.
MainReturn ==
    /\ Running /\ pcMain = "stopped"
    /\ pcMain' = "returned"
    /\ Exit("clean")
    /\ UNCHANGED <<pcListen, registered, stopChan, inShutdown, elapsed, log>>
    /\ UNCHANGED delivered

\* The seconds a connection without a request stays new for srv.Shutdown
\* (closeIdleConns takes a StateNew connection older than this for idle).
StateNewLimit == 5

\* The moments of interest after the call of srv.Shutdown.
Deadlines == {ShutdownTimeout, StateNewLimit, ShutdownContextTimeout}

\* Time passes while Shutdown waits, for an active connection or for a new
\* one: up to the next deadline of interest. Every connection was
\* accepted before Shutdown was called, so none is new any more once
\* StateNewLimit has passed.
Tick ==
    /\ Running /\ pcMain = "draining"
    /\ Waited # {} \/ newConns > 0
    /\ \E d \in Deadlines :
        /\ d > elapsed
        /\ \A e \in Deadlines : e > elapsed => d <= e
        /\ elapsed' = d
        /\ newConns' = IF d >= StateNewLimit THEN 0 ELSE newConns
        /\ idleConns' = IF d >= StateNewLimit
                          THEN idleConns + newConns ELSE idleConns
    /\ UNCHANGED <<pcMain, pcListen, registered, stopChan, inShutdown, exited,
                   log>>
    /\ UNCHANGED <<global, store, expired, conn, gDone, uDone, nReqs>>
    /\ UNCHANGED delivered

\* ---------------------------------------------------------- environment
\* The delivery as it would be on a channel without a buffer: the signal
\* is passed on only while the main goroutine is waiting to receive.
SignalUnbuffered ==
    /\ Running
    /\ \E sig \in Signals :
        IF registered /\ sig \in NotifySignals
          THEN /\ stopChan' =
                    IF Len(stopChan) < StopChanCap /\ pcMain = "wait"
                      THEN Append(stopChan, sig) ELSE stopChan
               /\ delivered' = TRUE
               /\ UNCHANGED exited
               /\ UNCHANGED dataVars
          ELSE /\ Exit(sig)
               /\ UNCHANGED <<stopChan, delivered>>
    /\ UNCHANGED <<pcMain, pcListen, registered, inShutdown, elapsed, log>>

\* The operating system delivers a signal. A registered signal is sent to
\* stopChan without blocking (dropped when the buffer is full); any other
\* signal, or any signal before signal.Notify, ends the process. The send
\* depends on the buffer only: a signal that arrives after the main
\* goroutine's receive is queued although nobody reads stopChan again.
Signal ==
    /\ Running
    /\ \E sig \in Signals :
        IF registered /\ sig \in NotifySignals
          THEN /\ stopChan' =
                    IF Len(stopChan) < StopChanCap
                      THEN Append(stopChan, sig) ELSE stopChan
               /\ delivered' = TRUE
               /\ UNCHANGED exited
               /\ UNCHANGED dataVars
          ELSE /\ Exit(sig)
               /\ UNCHANGED <<stopChan, delivered>>
    /\ UNCHANGED <<pcMain, pcListen, registered, inShutdown, elapsed, log>>

\* --------------------------------------------------- listener goroutine
\* srv.ListenAndServe returns a zerr that is not ErrServerClosed.
ListenFailed ==
    /\ pcListen' = "failed"
    /\ UNCHANGED <<exited, log>>
    /\ UNCHANGED dataVars

\* log.Error("listen: %v", "err", zerr)
LogListenError ==
    /\ Running /\ pcListen = "failed"
    /\ log' = Append(log, "listen: %v")
    /\ pcListen' = "logged"
    /\ UNCHANGED <<pcMain, registered, stopChan, inShutdown, elapsed, exited>>
    /\ UNCHANGED dataVars
    /\ UNCHANGED delivered

\* panic(zerr): nothing recovers it, the runtime ends the process.
Panic ==
    /\ Running /\ pcListen = "logged"
    /\ pcListen' = "panicked"
    /\ Exit("panic")
    /\ UNCHANGED <<pcMain, registered, stopChan, inShutdown, elapsed, log>>
    /\ UNCHANGED delivered

\* srv.ListenAndServe, its first statement: it returns ErrServerClosed at
\* once when the server is already shutting down, and goes on to bind the
\* address otherwise.
ListenAndServe ==
    /\ Running /\ pcListen = "start"
    /\ pcListen' = IF inShutdown THEN "returned" ELSE "binding"
    /\ UNCHANGED <<pcMain, registered, stopChan, inShutdown, elapsed, exited,
                   log>>
    /\ UNCHANGED dataVars
    /\ UNCHANGED delivered

\* net.Listen in srv.ListenAndServe: the address is bound, or the bind
\* error is returned, whether srv.Shutdown has been called since the check
\* above or not.
Listen ==
    /\ Running /\ pcListen = "binding"
    /\ \E bound \in BOOLEAN :
        IF bound
          THEN /\ pcListen' = "bound"
               /\ UNCHANGED <<exited, log>>
               /\ UNCHANGED dataVars
          ELSE ListenFailed
    /\ UNCHANGED <<pcMain, registered, stopChan, inShutdown, elapsed>>
    /\ UNCHANGED delivered

\* srv.Serve registers the listener, unless Shutdown was called meanwhile
\* (it then closes the listener and returns ErrServerClosed).
Serve ==
    /\ Running /\ pcListen = "bound"
    /\ pcListen' = IF inShutdown THEN "returned" ELSE "accept"
    /\ UNCHANGED <<pcMain, registered, stopChan, inShutdown, elapsed, exited,
                   log>>
    /\ UNCHANGED dataVars
    /\ UNCHANGED delivered

\* The accept error as the goroutine would handle it without the
\* ErrServerClosed check of line 151.
AcceptErrorUnchecked ==
    /\ Running /\ pcListen = "accept"
    /\ ListenFailed
    /\ UNCHANGED <<pcMain, registered, stopChan, inShutdown, elapsed>>
    /\ UNCHANGED delivered

\* Accept returns an error: Serve returns ErrServerClosed when the server
\* is shutting down (Shutdown closed the listener), the error otherwise.
AcceptError ==
    /\ Running /\ pcListen = "accept"
    /\ IF inShutdown
         THEN /\ pcListen' = "closed"
              /\ UNCHANGED <<exited, log>>
              /\ UNCHANGED dataVars
         ELSE ListenFailed
    /\ UNCHANGED <<pcMain, registered, stopChan, inShutdown, elapsed>>
    /\ UNCHANGED delivered

\* ------------------------------------------------------- session manager
\* The lifetime of a stored session passes (24 hours after its creation,
\* the default of scs.New()): from then on the store does not find the
\* token any more. Its cleanup deletes the item later, which nothing can
\* observe. A single request is taken to be shorter than the lifetime: new
\* session data does not expire before its first commit.
Expire ==
    /\ Running
    /\ \E t \in DOMAIN store \ expired : expired' = expired \cup {t}
    /\ UNCHANGED <<global, store, newConns, idleConns, conn, gDone, uDone, nReqs>>
    /\ UNCHANGED lifeVars

\* sessionManager.Load: the data stored under the cookie's token, or new,
\* empty session data (no token yet) when the request carries no cookie or
\* the store does not find the token (it never held it, or the session
\* has expired).
Load(cookie) ==
    IF cookie \in DOMAIN store /\ cookie \notin expired
      THEN [sdToken |-> cookie, sdCount |-> store[cookie]]
      ELSE [sdToken |-> NoToken, sdCount |-> 0]

\* sessionManager.GetInt(ctx, key): the int under key, 0 when there is none.
GetInt(r) == r.sdCount

\* Put as it would be if it did not mark the session data as modified.
PutUnmarked(r, val) == [r EXCEPT !.sdCount = val]

\* sessionManager.Put(ctx, key, val): sets the value and marks the session
\* data of the request as modified.
Put(r, val) == [r EXCEPT !.sdCount = val, !.sdModified = TRUE]

\* The store after Commit wrote val under token, with the deadline the
\* session data was loaded with: the item of an expired session is written
\* and stays expired.
StorePut(token, val) ==
    [t \in DOMAIN store \cup {token} |-> IF t = token THEN val ELSE store[t]]

\* The value the store holds for a token, as GetInt reads it after a load:
\* 0 when the store does not find the token.
Stored(t) == Load(t).sdCount

\* The token Commit stores session data under: its own, or a generated
\* one when it has none. Tokens are opaque: the generated token is the
\* first the store does not hold.
CommitToken(r) ==
    IF r.sdToken # NoToken THEN r.sdToken
    ELSE CHOOSE t \in Tokens \ DOMAIN store :
            \A u \in Tokens \ DOMAIN store : t <= u

\* ---------------------------------------------------------------- routes
\* The mux: cfg.HealthPath goes to healthz, everything else to the root
\* handler.
Paths == {RootPath, HealthPath}

\* What reaches the client of what the handler wrote: net/http sends no
\* body in the response to a HEAD request.
WireBody(method, written) == IF method = "HEAD" THEN "" ELSE written

\* healthz as it would be if it answered GET only.
healthzGetOnly(r) ==
    IF r.method = "GET"
      THEN [r EXCEPT !.pc = "rendered", !.status = StatusOK,
                     !.body = WireBody(r.method, "ok")]
      ELSE [r EXCEPT !.pc = "rendered", !.status = StatusMethodNotAllowed,
                     !.body = WireBody(r.method, "Method Not Allowed")]

\* func healthz: io.WriteString(w, "ok"); the status defaults to 200.
healthz(r) ==
    [r EXCEPT !.pc = "rendered", !.status = StatusOK,
              !.body = WireBody(r.method, "ok")]

\* The default branch as it would be if it answered like healthz.
MethodNotAllowedAsOK(r) ==
    [r EXCEPT !.pc = "rendered", !.status = StatusOK,
              !.body = WireBody(r.method, "ok")]

\* Root handler, default branch: http.Error(w, "Method Not Allowed", 405).
MethodNotAllowed(r) ==
    [r EXCEPT !.pc = "rendered", !.status = StatusMethodNotAllowed,
              !.body = WireBody(r.method, "Method Not Allowed")]

\* The page as it would be if it showed the user count for the global one.
PageSwapped(r) ==
    [r EXCEPT !.pc = "rendered", !.status = StatusOK,
              !.body = WireBody(r.method, "page"),
              !.pageGlobal = 1 + GetInt(r), !.pageUser = GetInt(r)]

\* page(global.Count, userCount).Render: the response of the GET and POST
\* branches, built from the value of global.Count at this moment and from
\* userCount, read from the session data of the request (lines 116, 130).
Page(r) ==
    [r EXCEPT !.pc = "rendered", !.status = StatusOK,
              !.body = WireBody(r.method, "page"),
              !.pageGlobal = global, !.pageUser = GetInt(r)]

\* The user count on the page of a rendered request.
PageUser(r) == r.pageUser

\* Lines 126-129 as they would be without the check of line 126.
UserIncUnchecked(r) == Put(r, GetInt(r) + 1)

\* Lines 126-129 on the session data of a request: with `user` in the
\* form, the value under key is read and written back plus one.
UserInc(r) ==
    IF "user" \in r.form THEN Put(r, GetInt(r) + 1) ELSE r

\* -------------------------------------------------------------- requests
\* conn with request r replaced by q.
Replace(r, q) == (conn (-) SetToBag({r})) (+) SetToBag({q})

\* POST requests in flight on the root path with this field in their form.
Posting(field) ==
    {r \in InFlight : r.path = RootPath /\ r.method = "POST" /\ field \in r.form}

\* The number of requests of the set rs in flight.
Count(rs) == BagCardinality([r \in rs |-> conn[r]])

\* POST requests with `global`: those whose global.Count++ has begun (its
\* read is done), and those whose global.Count++ is done.
gStarted ==
    gDone + Count({r \in Posting("global") :
                     r.pc \in {"read", "incd", "rendered", "committed"}})

gWritten ==
    gDone + Count({r \in Posting("global") :
                     r.pc \in {"incd", "rendered", "committed"}})

\* POST requests with `user` completed so far, over all sessions.
RECURSIVE SumTo(_, _)
SumTo(f, n) == IF n = 0 THEN 0 ELSE f[n] + SumTo(f, n - 1)
uTotal == SumTo(uDone, MaxTokens)

\* Increments requested so far, of the two counters together, by the POST
\* requests completed and in flight.
Requested ==
    gDone + Count(Posting("global")) + uTotal + Count(Posting("user"))

\* A request as the connection's goroutine has read it: its path, method
\* and form and the token of its session cookie. The record keeps the form
\* only for a POST to the root path, the only branch to parse it, and the
\* cookie only for a GET or a POST to the root path, the only branches to
\* use the session LoadAndSave loads.
Request(path, method, form, cookie) ==
    [NewRequest EXCEPT !.path = path, !.method = method,
                       !.form = IF path = RootPath /\ method = "POST"
                                  THEN form ELSE {},
                       !.cookie = IF path = RootPath /\ method \in {"GET", "POST"}
                                    THEN cookie ELSE NoToken]

\* The requests a client may send.
Requests ==
    {Request(path, method, form, cookie) :
        path \in Paths, method \in Methods, form \in SUBSET Fields,
        cookie \in {NoToken} \cup Tokens}

\* POST requests with `user` in flight that will create a session when
\* they commit, as things stand: their cookie's token is not found, or was
\* not when the session was loaded.
Creating ==
    {r \in Posting("user") :
        \/ r.pc = "received" /\ Load(r.cookie).sdToken = NoToken
        \/ r.pc \notin {"received", "committed"} /\ r.sdToken = NoToken}

\* The bounds of a run on the requests read: at most MaxRequests requests,
\* at most MaxIncrements increments requested, at most MaxTokens sessions
\* created.
WithinBounds(q) ==
    /\ nReqs < MaxRequests
    /\ (q.path = RootPath /\ q.method = "POST") =>
          /\ Requested + Cardinality(q.form) <= MaxIncrements
          /\ ("user" \in q.form /\ Load(q.cookie).sdToken = NoToken) =>
                Cardinality(DOMAIN store) + Count(Creating) < MaxTokens

\* The requests in flight whose read srv.Shutdown's poll may overtake
\* (StateActive is not stored yet) or has overtaken (it was not when the
\* poll closed the connection).
Overtaken == {r \in InFlight : r.cstate # "active"}

\* The bound of a run on the reads srv.Shutdown's poll overtakes: with the
\* request read in state cs, at most MaxOvertaken requests are in flight
\* while one of them is overtaken.
WithinOvertaken(cs) ==
    (cs = "idle" \/ Overtaken # {}) => Count(InFlight) < MaxOvertaken

\* The connections open: those without a request and those serving one.
Conns == newConns + idleConns + BagCardinality(conn)

\* The accept loop of srv.Serve takes a connection (StateNew) and starts
\* its goroutine.
Accept ==
    /\ Running /\ pcListen = "accept" /\ ~inShutdown
    /\ Conns < MaxConc
    /\ newConns' = newConns + 1
    /\ UNCHANGED <<global, store, expired, idleConns, conn, gDone, uDone, nReqs>>
    /\ UNCHANGED lifeVars

\* A connection without a request has been open for 5 s: srv.Shutdown
\* takes it for idle from now on.
Age ==
    /\ Running /\ newConns > 0
    /\ newConns' = newConns - 1
    /\ idleConns' = idleConns + 1
    /\ UNCHANGED <<global, store, expired, conn, gDone, uDone, nReqs>>
    /\ UNCHANGED lifeVars

\* A connection without a request is closed: by the client, or by the
\* server when its read or idle timeout passes.
Hangup ==
    /\ Running
    /\ \/ newConns > 0 /\ newConns' = newConns - 1 /\ UNCHANGED idleConns
       \/ idleConns > 0 /\ idleConns' = idleConns - 1 /\ UNCHANGED newConns
    /\ UNCHANGED <<global, store, expired, conn, gDone, uDone, nReqs>>
    /\ UNCHANGED lifeVars

\* The goroutine of a connection reads a request from it (c.readRequest
\* returns; c.setState stores StateActive next): any path, method and
\* form, with no session cookie or with the token of a session issued so
\* far (a token the server never issued loads like no cookie), on a new
\* connection or on a keep-alive one, whatever the accept loop and
\* srv.Shutdown are doing. Only srv.Shutdown's poll reads the state of a
\* connection. It waits for a new connection as it does for an active
\* one, so on a new connection the store is taken with the read (a
\* connection that turns 5 s old between the two is one that has aged
\* before the read). On a connection the poll takes for idle the store is
\* a step of its own (SetActive), before which the poll may close the
\* connection, or it follows the read at once.
ReadRequest ==
    /\ Running
    /\ \E cs \in {"active", "idle"} :
        /\ \/ /\ newConns > 0 /\ cs = "active"
              /\ newConns' = newConns - 1 /\ UNCHANGED idleConns
           \/ /\ idleConns > 0
              /\ idleConns' = idleConns - 1 /\ UNCHANGED newConns
        /\ \E q \in Requests :
            /\ q.cookie \in {NoToken} \cup DOMAIN store
            /\ WithinBounds(q) /\ WithinOvertaken(cs)
            /\ conn' = conn (+) SetToBag({[q EXCEPT !.cstate = cs]})
    /\ nReqs' = nReqs + 1
    /\ UNCHANGED <<global, store, expired, gDone, uDone>>
    /\ UNCHANGED lifeVars

\* The goroutine of a connection that has read a request stores
\* StateActive (c.setState): srv.Shutdown waits for the connection from
\* now on. On a connection srv.Shutdown has closed and forgotten in
\* between, the store changes nothing.
SetActive ==
    /\ Running
    /\ \E r \in TakenForIdle :
        conn' = Replace(r, [r EXCEPT !.cstate = "active"])
    /\ UNCHANGED <<global, store, expired, newConns, idleConns, gDone, uDone, nReqs>>
    /\ UNCHANGED lifeVars

\* The request with the session data LoadAndSave loads for its cookie.
WithSession(r) ==
    [r EXCEPT !.pc = "loaded", !.cookie = NoToken,
              !.sdToken = Load(r.cookie).sdToken,
              !.sdCount = Load(r.cookie).sdCount]

\* The mux: healthz and the root handler's default branch touch nothing
\* shared and run to their return; the GET and POST branches of the root
\* handler go on in the actions below.
Route(r) ==
    IF r.path = HealthPath THEN healthz(r)
    ELSE IF r.method \notin {"GET", "POST"} THEN MethodNotAllowed(r)
    ELSE r

\* LoadAndSave before the handler: the session of the request's cookie is
\* loaded from the store, for every request, and the mux routes the
\* request.
LoadSession ==
    /\ Running
    /\ \E r \in InFlight :
        /\ r.pc = "received" /\ r.cstate # "idle"
        /\ conn' = Replace(r, Route(WithSession(r)))
    /\ UNCHANGED <<global, store, expired, newConns, idleConns, gDone, uDone, nReqs>>
    /\ UNCHANGED lifeVars

\* Root handler, GET branch (lines 114-119).
RootGet ==
    /\ Running
    /\ \E r \in InFlight :
        /\ r.pc = "loaded" /\ r.method = "GET"
        /\ conn' = Replace(r, Page(r))
    /\ UNCHANGED <<global, store, expired, newConns, idleConns, gDone, uDone, nReqs>>
    /\ UNCHANGED lifeVars

\* Root handler, POST branch, global.Count++ (line 124): the read.
IncRead ==
    /\ Running
    /\ \E r \in InFlight :
        /\ r.pc = "loaded" /\ r.method = "POST" /\ "global" \in r.form
        /\ conn' = Replace(r, [r EXCEPT !.pc = "read", !.tmp = global])
    /\ UNCHANGED <<global, store, expired, newConns, idleConns, gDone, uDone, nReqs>>
    /\ UNCHANGED lifeVars

\* The write as it would be if it stored the value read, not one more.
IncWriteSame ==
    /\ Running
    /\ \E r \in InFlight :
        /\ r.pc = "read"
        /\ global' = r.tmp
        /\ conn' = Replace(r, [r EXCEPT !.pc = "incd", !.tmp = 0])
    /\ UNCHANGED <<store, expired, newConns, idleConns, gDone, uDone, nReqs>>
    /\ UNCHANGED lifeVars

\* The write as it would be if it stored the value read plus two.
IncWriteTwice ==
    /\ Running
    /\ \E r \in InFlight :
        /\ r.pc = "read"
        /\ global' = r.tmp + 2
        /\ conn' = Replace(r, [r EXCEPT !.pc = "incd", !.tmp = 0])
    /\ UNCHANGED <<store, expired, newConns, idleConns, gDone, uDone, nReqs>>
    /\ UNCHANGED lifeVars

\* The increment as it would be if it were atomic (the write adds one to
\* the current value, not to the value read).
IncWriteAtomic ==
    /\ Running
    /\ \E r \in InFlight :
        /\ r.pc = "read"
        /\ global' = global + 1
        /\ conn' = Replace(r, [r EXCEPT !.pc = "incd", !.tmp = 0])
    /\ UNCHANGED <<store, expired, newConns, idleConns, gDone, uDone, nReqs>>
    /\ UNCHANGED lifeVars

\* global.Count++ (line 124): the write of the value read, plus one.
IncWrite ==
    /\ Running
    /\ \E r \in InFlight :
        /\ r.pc = "read"
        /\ global' = r.tmp + 1
        /\ conn' = Replace(r, [r EXCEPT !.pc = "incd", !.tmp = 0])
    /\ UNCHANGED <<store, expired, newConns, idleConns, gDone, uDone, nReqs>>
    /\ UNCHANGED lifeVars

\* The POST branch as it would be if it rendered the page before the
\* session increment.
RootPostRenderFirst ==
    /\ Running
    /\ \E r \in InFlight :
        /\ r.method = "POST"
        /\ \/ r.pc = "incd"
           \/ r.pc = "loaded" /\ "global" \notin r.form
        /\ conn' = Replace(r, [UserInc(r) EXCEPT
                                  !.pc = "rendered", !.status = StatusOK,
                                  !.body = WireBody(r.method, "page"),
                                  !.pageGlobal = global,
                                  !.pageUser = GetInt(r)])
    /\ UNCHANGED <<global, store, expired, newConns, idleConns, gDone, uDone, nReqs>>
    /\ UNCHANGED lifeVars

\* Root handler, POST branch after the global increment (lines 126-133):
\* the session increment, then the page.
RootPost ==
    /\ Running
    /\ \E r \in InFlight :
        /\ r.method = "POST"
        /\ \/ r.pc = "incd"
           \/ r.pc = "loaded" /\ "global" \notin r.form
        /\ conn' = Replace(r, Page(UserInc(r)))
    /\ UNCHANGED <<global, store, expired, newConns, idleConns, gDone, uDone, nReqs>>
    /\ UNCHANGED lifeVars

\* The commit as it would be if it added the request's increment to the
\* value the store holds at that moment.
SaveOnStored ==
    /\ Running
    /\ \E r \in InFlight :
        /\ r.pc = "rendered" /\ r.sdModified
        /\ r.sdToken = NoToken => Cardinality(DOMAIN store) < MaxTokens
        /\ store' = StorePut(CommitToken(r), Stored(CommitToken(r)) + 1)
        /\ conn' = Replace(r, [r EXCEPT !.pc = "committed",
                                        !.sdToken = CommitToken(r)])
    /\ UNCHANGED <<global, expired, newConns, idleConns, gDone, uDone, nReqs>>
    /\ UNCHANGED lifeVars

\* LoadAndSave after the handler returned, for modified session data: it
\* is committed to the store, under a newly generated token if it has none
\* (as long as the run has tokens left).
Save ==
    /\ Running
    /\ \E r \in InFlight :
        /\ r.pc = "rendered" /\ r.sdModified
        /\ r.sdToken = NoToken => Cardinality(DOMAIN store) < MaxTokens
        /\ store' = StorePut(CommitToken(r), r.sdCount)
        /\ conn' = Replace(r, [r EXCEPT !.pc = "committed",
                                        !.sdToken = CommitToken(r)])
    /\ UNCHANGED <<global, expired, newConns, idleConns, gDone, uDone, nReqs>>
    /\ UNCHANGED lifeVars

\* The session is settled (committed, or not modified) and the buffered
\* response is written to the connection: the request is over. The
\* connection is kept alive for a next request unless the client asked to
\* close it or the server is shutting down. On a connection srv.Shutdown
\* has closed the write fails, and the goroutine of the connection ends.
WriteResponse ==
    /\ Running
    /\ \E r \in InFlight :
        /\ \/ r.pc = "committed"
           \/ r.pc = "rendered" /\ ~r.sdModified
        /\ conn' = conn (-) SetToBag({r})
        /\ gDone' = IF r \in Posting("global") THEN gDone + 1 ELSE gDone
        /\ uDone' = IF r \in Posting("user")
                      THEN [uDone EXCEPT ![CommitToken(r)] = @ + 1] ELSE uDone
        /\ \E keep \in BOOLEAN :
            /\ keep => (~inShutdown /\ r.cstate # "closed")
            /\ idleConns' = IF keep THEN idleConns + 1 ELSE idleConns
    /\ UNCHANGED <<global, store, expired, newConns, nReqs>>
    /\ UNCHANGED lifeVars

\* ------------------------------------------------------- specification
Next ==
    \/ ParseConfig
    \/ NotifySignal
    \/ Setup
    \/ Spawn
    \/ ReceiveStop
    \/ LogShuttingDown
    \/ Shutdown
    \/ CloseIdleConns
    \/ ShutdownDrained
    \/ ShutdownDeadline
    \/ ShutdownFailed
    \/ ServiceStopped
    \/ MainReturn
    \/ Tick
    \/ Signal
    \/ ListenAndServe
    \/ Listen
    \/ Serve
    \/ AcceptError
    \/ LogListenError
    \/ Panic
    \/ Accept
    \/ Age
    \/ Hangup
    \/ ReadRequest
    \/ SetActive
    \/ LoadSession
    \/ RootGet
    \/ IncRead
    \/ IncWrite
    \/ RootPost
    \/ Save
    \/ WriteResponse
    \/ Expire

Spec == Init /\ [][Next]_vars

\* Requests handled strictly one after another: a request is read only
\* when none is in flight.
Sequential == Count(InFlight) <= 1

SeqReadRequest == ReadRequest /\ Sequential'

SeqNext ==
    \/ ParseConfig
    \/ NotifySignal
    \/ Setup
    \/ Spawn
    \/ ReceiveStop
    \/ LogShuttingDown
    \/ Shutdown
    \/ CloseIdleConns
    \/ ShutdownDrained
    \/ ShutdownDeadline
    \/ ShutdownFailed
    \/ ServiceStopped
    \/ MainReturn
    \/ Tick
    \/ Signal
    \/ ListenAndServe
    \/ Listen
    \/ Serve
    \/ AcceptError
    \/ LogListenError
    \/ Panic
    \/ Accept
    \/ Age
    \/ Hangup
    \/ SeqReadRequest
    \/ SetActive
    \/ LoadSession
    \/ RootGet
    \/ IncRead
    \/ IncWrite
    \/ RootPost
    \/ Save
    \/ WriteResponse
    \/ Expire

SeqSpec == Init /\ [][SeqNext]_vars

\* The requests of the specification with fairness: handled one after
\* another, at most MaxFairRequests in one run.
FairReadRequest == SeqReadRequest /\ nReqs' <= MaxFairRequests

FairNext ==
    \/ ParseConfig
    \/ NotifySignal
    \/ Setup
    \/ Spawn
    \/ ReceiveStop
    \/ LogShuttingDown
    \/ Shutdown
    \/ CloseIdleConns
    \/ ShutdownDrained
    \/ ShutdownDeadline
    \/ ShutdownFailed
    \/ ServiceStopped
    \/ MainReturn
    \/ Tick
    \/ Signal
    \/ ListenAndServe
    \/ Listen
    \/ Serve
    \/ AcceptError
    \/ LogListenError
    \/ Panic
    \/ Accept
    \/ Age
    \/ Hangup
    \/ FairReadRequest
    \/ SetActive
    \/ LoadSession
    \/ RootGet
    \/ IncRead
    \/ IncWrite
    \/ RootPost
    \/ Save
    \/ WriteResponse
    \/ Expire

\* The Go scheduler runs the main goroutine whenever it can take a step,
\* and the listener goroutine once ListenAndServe has returned; time
\* passes while srv.Shutdown waits. The requests are handled one after
\* another here, and there are fewer of them: the properties checked
\* under fairness are about the two goroutines and the signals, for which
\* a request counts only by being in flight or not, and by its connection
\* being one srv.Shutdown waits for or not.
FairSpec ==
    /\ Init /\ [][FairNext]_vars
    /\ WF_vars(ParseConfig \/ NotifySignal \/ Setup \/ Spawn)
    /\ WF_vars(ReceiveStop \/ LogShuttingDown \/ Shutdown \/ CloseIdleConns
                 \/ ShutdownDrained \/ ShutdownDeadline
                 \/ ShutdownFailed \/ ServiceStopped \/ MainReturn)
    /\ WF_vars(LogListenError \/ Panic)
    /\ WF_vars(Tick)

\* ================================================================ claims
\* Requests by kind.
RootPosts == {r \in InFlight : r.path = RootPath /\ r.method = "POST"}
RootOthers == {r \in InFlight : r.path = RootPath /\ r.method \notin {"GET", "POST"}}
Rendered == {r \in InFlight : r.pc = "rendered"}

\* Requests whose session data is committed and whose response is not yet
\* written.
Committed == {r \in InFlight : r.pc = "committed"}

\* A step of the running process in which request r moves on or completes,
\* one in which request q is read from its connection, and one in which
\* the response of request r is written (the request completes).
StepOf(r) == exited' = "no" /\ CopiesIn(r, conn') < CopiesIn(r, conn)

Received(q) == exited' = "no" /\ BagCardinality(conn') > BagCardinality(conn)
                 /\ CopiesIn(q, conn') > CopiesIn(q, conn)

Answered(r) == StepOf(r) /\ BagCardinality(conn') < BagCardinality(conn)

\* POST requests with `user` committed so far under the session of token
\* t: those completed, and those in flight whose response is not yet
\* written.
uCommitted(t) ==
    uDone[t] + Count({r \in Posting("user") \cap Committed : r.sdToken = t})

\* The step leaves the global counter and every session's counter alone.
CountersUnchanged == global' = global /\ store' = store

\* C1. With the requests handled one after another, the global counter
\* equals the number of POST requests with `global` whose increment is
\* done: after N such requests it is N, whatever other requests came
\* between them.
C1_GlobalCountsPosts == global = gWritten

\* Three POST requests with `global` have completed, one after another.
C1_Witness == Running /\ InFlight = {} /\ gDone = 3 /\ global = 3

\* C2 as the specification states it: with the requests handled one after
\* another, the counter stored for every session token equals the number
\* of POST requests with `user` committed in that session (all of them
\* completed, when no request is in flight): N after N of them, and 0 for
\* a session that never posted `user`, whatever the other sessions did.
C2_SessionCountsPosts == \A t \in Tokens : Stored(t) = uCommitted(t)

\* C2, as the code has it. The same, for every session whose lifetime has
\* not passed; the counter of an expired session reads 0, whatever was
\* posted under it.
C2_LiveSessionCountsPosts ==
    \A t \in Tokens :
        /\ t \notin expired => Stored(t) = uCommitted(t)
        /\ t \in expired => Stored(t) = 0

\* One session has posted `user` twice, another once.
C2_Witness ==
    /\ Running /\ InFlight = {}
    /\ \E t, u \in Tokens : t # u /\ uDone[t] = 2 /\ Stored(t) = 2
                                   /\ uDone[u] = 1 /\ Stored(u) = 1

\* No POST request carrying a field has been read so far.
NoPostYet ==
    /\ gDone = 0 /\ uTotal = 0
    /\ \A r \in RootPosts : r.form = {}

\* C3. A GET on the root path rendered before any POST was processed, for
\* a session with no stored data, shows global = 0 and user = 0.
C3_FreshGetShowsZero ==
    NoPostYet =>
        \A r \in Rendered :
            (r.path = RootPath /\ r.method = "GET") =>
                /\ r.status = StatusOK /\ r.body = "page"
                /\ r.pageGlobal = 0 /\ PageUser(r) = 0

\* A GET has been rendered and no POST with a field was read before.
C3_Witness ==
    /\ NoPostYet
    /\ \E r \in Rendered : r.path = RootPath /\ r.method = "GET"
                            /\ r.sdToken = NoToken

\* C4. No step of a POST to the root path whose form has neither `global`
\* nor `user` (its reading, its handler, its completion) changes the
\* global counter or any session's stored counter.
C4_EmptyPostChangesNothing ==
    [][ /\ \A r \in RootPosts : (r.form = {} /\ StepOf(r)) => CountersUnchanged
        /\ \A q \in BagToSet(conn') :
              (q.path = RootPath /\ q.method = "POST" /\ q.form = {}
                 /\ Received(q)) => CountersUnchanged ]_vars

\* A POST with neither field is about to complete while both counters
\* hold increments.
C4_Witness ==
    /\ global > 0 /\ DOMAIN store # {}
    /\ \E r \in RootPosts \cap Rendered : r.form = {} /\ r.sdToken # NoToken

\* C5. Every request to the root path with a method other than GET and
\* POST is answered with status 405 (the handler's one step renders that
\* response, and it is the response written), and none of its steps
\* changes the global counter or a session's stored counter.
C5_OtherMethodsRejected ==
    /\ [](\A r \in RootOthers :
            r.pc # "received" =>
                (r.pc = "rendered" /\ r.status = StatusMethodNotAllowed))
    /\ [][\A r \in RootOthers :
            Answered(r) => r.status = StatusMethodNotAllowed]_vars
    /\ [][ /\ \A r \in RootOthers : StepOf(r) => CountersUnchanged
           /\ \A q \in BagToSet(conn') :
                (q.path = RootPath /\ q.method \notin {"GET", "POST"}
                   /\ Received(q)) => CountersUnchanged ]_vars

\* A DELETE and a HEAD on the root path are answered while the counters
\* hold increments.
C5_Witness ==
    /\ global > 0 /\ DOMAIN store # {}
    /\ \E r, q \in RootOthers : r.method = "DELETE" /\ q.method = "HEAD"
                                 /\ r.status = 405 /\ q.status = 405

\* Requests to the health path.
HealthRequests == {r \in InFlight : r.path = HealthPath}

\* No step of a request to the health path changes a counter.
HealthChangesNothing ==
    /\ \A r \in HealthRequests : StepOf(r) => CountersUnchanged
    /\ \A q \in BagToSet(conn') :
          (q.path = HealthPath /\ Received(q)) => CountersUnchanged

\* C6 as the specification states it: every request to the health path is
\* answered with status 200 and body "ok", whatever its method and
\* content, and changes no counter.
C6_HealthAlwaysOkBody ==
    /\ [](\A r \in HealthRequests :
            r.pc # "received" =>
                (r.pc = "rendered" /\ r.status = StatusOK /\ r.body = "ok"))
    /\ [][\A r \in HealthRequests : Answered(r) => r.status = StatusOK]_vars
    /\ [][HealthChangesNothing]_vars

\* C6, as the code has it. Every request to the health path is answered
\* with status 200, whatever its method and content, and none of its steps
\* changes the global counter or a session's stored counter; the body of
\* the answer is "ok" for every method but HEAD, whose answer has no body.
C6_HealthOk ==
    /\ [](\A r \in HealthRequests :
            r.pc # "received" =>
                /\ r.pc = "rendered" /\ r.status = StatusOK
                /\ r.body = IF r.method = "HEAD" THEN "" ELSE "ok")
    /\ [][\A r \in HealthRequests : Answered(r) => r.status = StatusOK]_vars
    /\ [][HealthChangesNothing]_vars

\* A POST and a HEAD on the health path are answered while the counters
\* hold increments.
C6_Witness ==
    /\ global > 0 /\ DOMAIN store # {}
    /\ \E r, q \in HealthRequests :
          /\ r.method = "POST" /\ r.status = 200 /\ r.body = "ok"
          /\ q.method = "HEAD" /\ q.status = 200 /\ q.body = ""

\* C7. global.Count++ is a read followed, later, by a write of the value
\* read plus one, whatever the counter has become meanwhile; so the counter
\* never exceeds the number of increments written, and falls short of it
\* when requests overlap: the witness is a state in which K >= 2 POST
\* requests with `global` have all completed and the counter is below K.
C7_IncrementNotAtomic ==
    /\ [](global <= gWritten)
    /\ [][\A r \in InFlight :
            (r.pc = "read" /\ StepOf(r)) => global' = r.tmp + 1]_vars

\* All K >= 2 POST requests with `global` have completed, none is in
\* flight, and the counter is less than K.
C7_Witness ==
    /\ Running /\ InFlight = {}
    /\ gDone >= 2 /\ global < gDone

\* C8. In every state the global counter and every session's stored
\* counter are non-negative, and no step of the running process makes the
\* global counter or the stored counter of a session smaller (the expiry
\* of a session apart).
C8_CountersNeverDecrease ==
    /\ [](global >= 0 /\ \A t \in Tokens : Stored(t) >= 0)
    /\ [][exited' = "no" =>
            /\ global' >= global
            /\ \A t \in Tokens \ expired' : Stored(t)' >= Stored(t)]_vars

\* The part of C8 that holds: the counters are never negative.
C8_CountersNonNegative ==
    global >= 0 /\ \A t \in Tokens : Stored(t) >= 0

\* C9. Once srv.Shutdown has been called, the shutdown sequence does not
\* end the process with a request still in flight before the shutdown
\* timeout has elapsed: the process ends by returning from run() (Stopped),
\* and with a request in flight only when that request has outlived the
\* timeout. A request that finishes earlier has been committed and
\* answered by then. (The process may also be killed, or end by the panic
\* of a listener goroutine whose ListenAndServe failed.)
C9_InFlightCompletesFirst ==
    [][(inShutdown /\ exited = "no"
          /\ exited' \notin {"no", "panic"} \cup Signals)
          => /\ exited' = "clean"
             /\ InFlight # {} => elapsed >= ShutdownTimeout]_vars

\* The part of C9 that holds: the shutdown sequence ends the process by
\* returning from run() (Stopped), and with a request in flight on a
\* connection srv.Shutdown's poll has found active only when that request
\* has outlived the timeout.
C9_ActiveCompletesFirst ==
    [][(inShutdown /\ exited = "no"
          /\ exited' \notin {"no", "panic"} \cup Signals)
          => /\ exited' = "clean"
             /\ Waited # {} => elapsed >= ShutdownTimeout]_vars

\* Shutdown is waiting, within the timeout, for a POST that has read the
\* global counter and not yet written it.
C9_Witness ==
    /\ Running /\ pcMain = "draining" /\ elapsed < ShutdownTimeout
    /\ \E r \in Posting("global") \cap Waited : r.pc = "read"

\* The process was killed by a signal it has not registered, or the
\* listener goroutine panicked.
EnvFault == exited \in (Signals \ {"SIGINT", "SIGTERM", "SIGQUIT"}) \cup {"panic"}

\* A registered signal sig is pending while the server is Serving.
Pending(sig) == Lifecycle = "Serving" /\ stopChan = <<sig>>

\* C10. Once registered, SIGINT, SIGTERM and SIGQUIT never end the process
\* but are queued on stopChan, which holds nothing else; the main goroutine
\* leaves its wait only by receiving one of them, and the server enters
\* ShuttingDown only by the main goroutine's call of Shutdown that follows;
\* and each of the three, pending while the server is Serving, leads to
\* Stopped, unless the process is killed by an unregistered signal or the
\* listener fails before Shutdown is called.
C10_SignalsShutDown ==
    /\ [](registered => exited \notin {"SIGINT", "SIGTERM", "SIGQUIT"})
    /\ [](\A i \in 1..Len(stopChan) :
            stopChan[i] \in {"SIGINT", "SIGTERM", "SIGQUIT"})
    /\ [][(pcMain = "wait" /\ pcMain' # "wait")
            => /\ Len(stopChan) > 0 /\ stopChan' = Tail(stopChan)
               /\ Head(stopChan) \in {"SIGINT", "SIGTERM", "SIGQUIT"}]_vars
    /\ [][(Lifecycle # "ShuttingDown" /\ Lifecycle' = "ShuttingDown")
            => pcMain = "stopping" /\ pcMain' = "draining"]_vars
    /\ (\E sig \in {"SIGINT", "SIGTERM", "SIGQUIT"} : Pending(sig))
          ~> (Lifecycle = "Stopped" \/ EnvFault)

\* A registered signal was received while the server was Serving: the main
\* goroutine has left its wait and is about to call Shutdown.
C10_Witness ==
    /\ Lifecycle = "Serving" /\ pcMain = "stopping"
    /\ log = <<"starting service...", "shutting down the service...">>

\* The position of a lifecycle state in Idle, Starting, Serving,
\* ShuttingDown, Stopped.
Rank(l) ==
    CASE l = "Idle" -> 0
      [] l = "Starting" -> 1
      [] l = "Serving" -> 2
      [] l = "ShuttingDown" -> 3
      [] l = "Stopped" -> 4
      [] OTHER -> 5

\* The step changes the lifecycle state, and not by a failure: it neither
\* ends the process as Failed nor enters or leaves Failing.
Moves ==
    /\ Lifecycle' # Lifecycle
    /\ Lifecycle # "Failing" /\ Lifecycle' \notin {"Failing", "Failed"}

\* C11 as the specification states it: every change of the lifecycle state
\* (failures apart) goes from a state to its immediate successor in Idle,
\* Starting, Serving, ShuttingDown, Stopped, so that ShuttingDown is
\* entered only from Serving.
C11_LifecycleInOrder ==
    [][Moves => Rank(Lifecycle') = Rank(Lifecycle) + 1]_vars

\* C11, as the code has it. The lifecycle only moves forward: every change
\* of state (failures apart) goes to the immediate successor, except that
\* ShuttingDown is also entered from Starting, when the signal is received
\* before the listener goroutine has reached its accept loop; Serving is
\* then skipped. Stopped and Failed are final.
C11_LifecycleForward ==
    /\ [][Moves => (Rank(Lifecycle') = Rank(Lifecycle) + 1
                     \/ (Lifecycle = "Starting" /\ Lifecycle' = "ShuttingDown"))]_vars
    /\ [][(Lifecycle = "Stopped" \/ Lifecycle = "Failed")
            => Lifecycle' = Lifecycle]_vars

\* The process has reached Stopped and the listener goroutine never
\* served: ListenAndServe found the server already shut down.
C11_Witness ==
    /\ Lifecycle = "Stopped" /\ pcListen = "returned"
    /\ log = <<"starting service...", "shutting down the service...",
               "service stopped">>

\* The line has been logged.
Logged(line) == \E i \in 1..Len(log) : log[i] = line

\* The last line of the log, "" when the log is empty.
LastLog == IF log = << >> THEN "" ELSE log[Len(log)]

\* How the process ended, by what it did last: run() returned an error
\* that main logged (a configuration or asset setup failure), or the
\* listener goroutine logged its error and panicked.
StartupError == exited # "no" /\ pcMain = "returned" /\ LastLog = "error"
ListenFailure == exited # "no" /\ pcListen = "panicked"

\* The exit status is 0 exactly when the process ended by the shutdown
\* sequence or by a help request, and 1 after a startup error.
ExitZeroOrOne ==
    /\ (exited # "no") =>
          (ExitCode(exited) = 0 <=> (Lifecycle = "Stopped" \/ exited = "help"))
    /\ StartupError => ExitCode(exited) = 1

\* C12 as the specification states it: the exit status is 0 exactly for a
\* clean shutdown or a help request, and 1 for every startup error, a
\* listener start failure included.
C12_ExitStatusOneOnFailure ==
    /\ ExitZeroOrOne
    /\ ListenFailure => ExitCode(exited) = 1

\* What the code does on a listener failure: the goroutine's panic ends
\* the process with the runtime's status 2, after "listen: %v" was logged.
C12_ListenFailureStatus ==
    /\ ExitZeroOrOne
    /\ ListenFailure => (ExitCode(exited) = 2 /\ Logged("listen: %v"))

\* srv.ListenAndServe has returned an error other than ErrServerClosed,
\* from the bind or from the accept loop.
ListenerFailed == pcListen \in {"failed", "logged", "panicked"}

\* The process has ended of its own accord (it was not killed).
Ended == exited \notin {"no"} \cup Signals

\* C13. Whenever the process has ended after the listener failed, the
\* failure was logged before and the exit status is not zero, whatever the
\* main goroutine was doing.
C13_ListenFailureFatal ==
    (Ended /\ ListenerFailed) =>
        (Logged("listen: %v") /\ ExitCode(exited) # 0)

\* The part of C13 that holds: connections are accepted only while the
\* listener has not failed (those open are served until the process ends),
\* a process ended by the listener's panic has logged the failure and has
\* status 2, and a failed listener leads to the end of the process.
C13_FailedListenerEndsProcess ==
    /\ [](pcListen = "panicked" =>
            (exited = "panic" /\ Logged("listen: %v") /\ ExitCode(exited) = 2))
    /\ [][newConns' > newConns => ~ListenerFailed]_vars
    /\ ListenerFailed ~> (exited # "no")

\* The main goroutine is past the receive on stopChan, in the shutdown
\* sequence of lines 160-168.
InShutdownSequence ==
    pcMain \in {"received", "stopping", "draining", "failed", "return",
                "stopped"}

\* The line `later` is in the log after the line `earlier`.
LoggedAfter(earlier, later) ==
    \E i, j \in 1..Len(log) : i < j /\ log[i] = earlier /\ log[j] = later

\* C14. When srv.Shutdown fails, the error is logged and the process still
\* ends as after a clean shutdown. srv.Shutdown returning with a
\* connection it is still waiting for (the drain did not finish before the
\* deadline) returns an error; the only step run() takes on an error is to
\* log "server Shutdown Failed" and go on to its return; a process that
\* has ended of its own accord with that line in its log has ended by
\* main's return, with status 0 and "service stopped" logged after the
\* error; and a failed srv.Shutdown leads to Stopped. (The process may
\* also be killed, or end by the panic of a listener goroutine that
\* failed, before main returns.)
C14_ShutdownFailureStillStops ==
    /\ [][(pcMain = "draining" /\ pcMain' # "draining"
             /\ (Waited # {} \/ newConns > 0))
            => pcMain' = "failed"]_vars
    /\ [][(pcMain = "failed" /\ pcMain' # "failed")
            => /\ log' = Append(log, "server Shutdown Failed")
               /\ pcMain' = "return" /\ exited' = "no"]_vars
    /\ []((Logged("server Shutdown Failed") /\ Running)
            => pcMain \in {"return", "stopped"})
    /\ []((Logged("server Shutdown Failed") /\ Ended /\ exited # "panic")
            => /\ Lifecycle = "Stopped" /\ ExitCode(exited) = 0
               /\ LoggedAfter("server Shutdown Failed", "service stopped"))
    /\ (Running /\ pcMain = "failed") ~> (Lifecycle = "Stopped" \/ EnvFault)

\* The deadline of srv.Shutdown has passed with a request in flight, and
\* the process has ended with the error logged.
C14_Witness ==
    /\ exited = "clean" /\ elapsed >= ShutdownContextTimeout
    /\ log = <<"starting service...", "shutting down the service...",
               "server Shutdown Failed", "service stopped">>

\* POST requests to the root path carrying both `global` and `user`.
PostsBoth == {r \in RootPosts : r.form = {"global", "user"}}

\* The session counter a request started from: the value the store holds
\* under its token when no other request of the session runs, 0 without a
\* session.
OldUser(r) == IF r.sdToken = NoToken THEN 0 ELSE store[r.sdToken]

\* C15. With the requests handled one after another, the response of a
\* POST carrying both `global` and `user` shows the global counter of
\* before the request plus one (the number of POSTs with `global`
\* completed before it, plus one), which is the counter's value, and the
\* session's stored counter of before the request plus one; and its commit
\* stores exactly that value for the session, leaving the global counter
\* at old + 1, so that the response written shows both counters as they
\* are.
C15_PostBothIncrementsBoth ==
    /\ [](\A r \in PostsBoth \cap Rendered :
            /\ r.status = StatusOK
            /\ r.pageGlobal = gDone + 1 /\ global = gDone + 1
            /\ PageUser(r) = OldUser(r) + 1
            /\ GetInt(r) = OldUser(r) + 1 /\ r.sdModified)
    /\ [][\A r \in PostsBoth \cap Rendered :
            StepOf(r) => /\ global' = global
                         /\ CommitToken(r) \in DOMAIN store'
                         /\ store'[CommitToken(r)] = OldUser(r) + 1]_vars
    /\ [](\A r \in PostsBoth \cap Committed :
            /\ r.pageGlobal = global /\ global = gDone + 1
            /\ PageUser(r) = store[r.sdToken])

\* A POST with both fields is rendered with global 1 and user 2: the
\* global counter was 0 and the session's counter 1 before it.
C15_Witness ==
    \E r \in PostsBoth \cap Rendered :
        /\ r.pageGlobal = 1 /\ PageUser(r) = 2
        /\ gDone = 0 /\ OldUser(r) = 1

\* C16. A POST with `user` works on the session data loaded when it began
\* and its completion stores its own value, whatever the store holds by
\* then; so a session's stored counter never exceeds the number of POSTs
\* with `user` committed in the session, and falls short of it when
\* requests of one session overlap: the witness is a state in which two
\* POSTs under the same token have both completed and the stored counter
\* grew by 1.
C16_SessionStaleCommit ==
    /\ [](\A t \in Tokens : Stored(t) <= uCommitted(t))
    /\ [][\A r \in Posting("user") \cap Rendered :
            StepOf(r) => /\ CommitToken(r) \in DOMAIN store'
                         /\ store'[CommitToken(r)] = GetInt(r)]_vars

\* A session was created by one POST with `user` (stored counter 1); two
\* more under its token have both completed, none is in flight, and the
\* stored counter is 2.
C16_Witness ==
    /\ Running /\ InFlight = {}
    /\ \E t \in Tokens : uDone[t] = 3 /\ Stored(t) = 2

\* srv.Shutdown is waiting for a request in flight (on a connection its
\* poll finds active).
Waiting == Running /\ pcMain = "draining" /\ Waited # {}

\* C17. The wait for in-flight requests is bounded by the configured
\* shutdown timeout: once it has elapsed with a request still running,
\* srv.Shutdown returns (the request is no longer waited for), and the
\* wait never lasts beyond it.
C17_WaitBoundedByShutdownTimeout ==
    /\ (Waiting /\ elapsed >= ShutdownTimeout) => ENABLED ShutdownDeadline
    /\ Waiting => elapsed <= ShutdownTimeout

\* The part of C17 that holds, with the deadline the code passes to
\* srv.Shutdown (time.Minute) in the place of the configured timeout: once
\* it has elapsed with a request still running srv.Shutdown returns, the
\* wait never lasts beyond it, and a wait leads to the end of the process.
C17_WaitBoundedByMinute ==
    /\ []((Waiting /\ elapsed >= ShutdownContextTimeout)
            => ENABLED ShutdownDeadline)
    /\ [](Waiting => elapsed <= ShutdownContextTimeout)
    /\ Waiting ~> (exited # "no")

\* The process ended other than by the shutdown sequence: killed by a
\* signal it has not registered, by the listener's panic, or by run()
\* returning a startup error.
Fault == EnvFault \/ exited = "error"

\* C18. A registered signal is never lost: signals are delivered to the
\* program only once signal.Notify was called; while the process runs, a
\* delivered signal is either still on stopChan or the main goroutine has
\* received one and is in the shutdown sequence; and, wherever the two
\* goroutines were when it was delivered, the process reaches Stopped,
\* unless it is killed or ends by a listener or startup failure first.
C18_SignalNeverLost ==
    /\ [](delivered => registered)
    /\ []((delivered /\ Running) =>
            (stopChan # << >> \/ InShutdownSequence))
    /\ delivered ~> (Lifecycle = "Stopped" \/ Fault)

\* A signal was delivered right after signal.Notify: the main goroutine
\* has not started the listener goroutine nor reached its wait, and the
\* signal is on stopChan.
C18_Witness ==
    /\ Running /\ delivered /\ stopChan # << >>
    /\ pcMain = "setup" /\ pcListen = "none"

\* The listener goroutine is in srv.ListenAndServe, at one of its checks
\* of the server shutting down: on entry, when Serve registers the
\* listener, and when Accept returns an error.
InListenAndServe == pcListen \in {"start", "bound", "accept"}

\* C19. The shutdown never sends the listener goroutine down its failure
\* path: once srv.Shutdown has been called, ListenAndServe returns an error
\* other than ErrServerClosed only from a net.Listen that was under way
\* and failed to bind; every return from one of its checks of the server
\* shutting down is silent (nothing logged, no panic, the process goes
\* on); and a process that has ended of its own accord after such a return
\* has ended by the clean-shutdown path, without a listen error in its log.
C19_ShutdownClosesSilently ==
    /\ [][(inShutdown /\ pcListen # "failed" /\ pcListen' = "failed")
            => pcListen = "binding"]_vars
    /\ [][(inShutdown /\ InListenAndServe /\ pcListen' # pcListen)
            => /\ pcListen' \in {"returned", "closed"}
               /\ log' = log /\ exited' = "no"]_vars
    /\ []((Ended /\ pcListen \in {"returned", "closed"})
            => (exited = "clean" /\ ~Logged("listen: %v")))

\* srv.Shutdown closed the listener under the accept loop, the listener
\* goroutine returned, and the process has ended by the clean path.
C19_Witness ==
    /\ exited = "clean" /\ pcListen = "closed"
    /\ log = <<"starting service...", "shutting down the service...",
               "service stopped">>

\* POST requests with `user` issued so far under the session of token t:
\* those completed and those in flight.
uIssued(t) ==
    uDone[t] + Count({r \in Posting("user") : r.sdToken = t})

\* C20. Under any interleaving the counters never over-count: the global
\* counter is at most the number of POST requests with `global` that have
\* started their increment, every session's stored counter is at most the
\* number of POST requests with `user` issued under the session, and once
\* a POST with `global` has completed the global counter is at least 1.
C20_NoOverCount ==
    /\ global <= gStarted
    /\ \A t \in Tokens : Stored(t) <= uIssued(t)
    /\ (Running /\ gDone >= 1) => global >= 1

\* Two overlapping POSTs with `global` have completed and left the global
\* counter at 1, and a session's counter holds an increment.
C20_Witness ==
    /\ Running /\ gDone = 2 /\ global = 1
    /\ \E t \in Tokens : Stored(t) = 1 /\ uIssued(t) = 1

====
